---- MODULE Spec2Model ----
(***************************************************************************)
(* Model of the freezeLedger frontend session logic:                       *)
(*   - fetchWithAuth  (lib/fetchWithAuth.js, src/unnamed/part_004)         *)
(*   - useAuthStore   (lib/authStore.js, both definitions found in         *)
(*                     src/unnamed/part_003)                               *)
(* Every asynchronous function is a process whose position (pc) is the     *)
(* await it is suspended at; one action is the code that runs between two  *)
(* awaits.  The server is the environment: it answers every request with   *)
(* any status, or the transport raises a fault.                            *)
(***************************************************************************)
EXTENDS Integers, Sequences, FiniteSets, TLC

VARIABLES user, isAuthenticated, loading, error,
          location, hasWindow, calls, hydrateRun,
          loginRun, logoutRun, served, registerRun,
          products, productsLoading, productsError, productOps, finished

vars == <<user, isAuthenticated, loading, error,
          location, hasWindow, calls, hydrateRun,
          loginRun, logoutRun, served, registerRun,
          products, productsLoading, productsError, productOps, finished>>

\* the product store: its products, loading and error fields, the run of
\* each of its four operations, and the operation that finished last
productStore == <<products, productsLoading, productsError, productOps, finished>>

\* what belongs to the pages and to the route middleware: the run of the
\* login form's handleSubmit, the run of the dashboard's handleLogout, the
\* requests the middleware has served, and the run of the registration
\* form's handleSubmit
pages == <<loginRun, logoutRun, served, registerRun>>

----------------------------------------------------------------------------
(* Bounds *)

\* number of fetchWithAuth calls that can be in flight together
MaxCalls == 2

\* how many requests the route middleware serves
MaxRequests == 2

\* how long the products list can get through createProduct
MaxProducts == 2

\* how many operations of the product store run at the same time
MaxInFlight == 2

\* how many redirect timers of the registration form can be pending
MaxTimers == 2

Calls == 1..MaxCalls

----------------------------------------------------------------------------
(* Values *)

Null == "null"

Profiles == {"alice", "bob"}

Faults == {"TypeError: Failed to fetch"}

\* URLs are token sequences, "/" being a token of its own, so that
\* String.prototype.includes is a contiguous-subsequence test.
API_BASE_URL == <<"http://localhost:8000">>

ProductsUrl == API_BASE_URL \o <<"/", "api", "/", "products", "/">>

MeUrl == API_BASE_URL \o <<"/", "api", "/", "auth", "/", "me", "/">>

RegisterUrl == API_BASE_URL \o <<"/", "api", "/", "auth", "/", "register", "/">>

LoginUrl == API_BASE_URL \o <<"/", "api", "/", "auth", "/", "login", "/">>

RefreshUrl == API_BASE_URL \o <<"/", "api", "/", "auth", "/", "refresh", "/">>

LogoutUrl == API_BASE_URL \o <<"/", "api", "/", "auth", "/", "logout", "/">>

\* the options object a caller passes to fetchWithAuth
PostOptions == [method |-> "POST", body |-> "data", credentials |-> "omit"]

\* options = {} : the default of fetchWithAuth's second parameter
DefaultOptions == [method |-> Null, body |-> Null, credentials |-> "unset"]

\* the (url, options) arguments fetchWithAuth is called with
CallInputs == {<<ProductsUrl, PostOptions>>, <<LoginUrl, PostOptions>>,
               <<RefreshUrl, DefaultOptions>>, <<LogoutUrl, DefaultOptions>>}

\* what the server can answer on a target or on /me: a success carries a
\* JSON payload
ServerResponses == {[status |-> 200, body |-> "alice"],
                    [status |-> 201, body |-> "bob"],
                    [status |-> 401, body |-> "detail"],
                    [status |-> 500, body |-> "detail"]}

\* a payload that is not JSON (an HTML error page): Response.json() rejects
\* on it
NotJson == "<html>"

\* the message of the SyntaxError Response.json() rejects with
JsonError == "SyntaxError: Unexpected token < in JSON at position 0"

\* what the server can answer on GET /me when the caller reads the payload:
\* a success status does not guarantee a JSON payload
ProfileResponses == ServerResponses \cup {[status |-> 200, body |-> NotJson]}

\* what the server can answer on POST /login and on POST /register:
\* data.detail is present in some error bodies and absent in others (body
\* Null), and an error body need not be JSON
LoginResponses == ServerResponses \cup {[status |-> 500, body |-> Null],
                                        [status |-> 500, body |-> NotJson]}

\* what the registration form can hold when it is submitted: whether the two
\* passwords are the same, and how long the password is
Forms == [matches : BOOLEAN, length : {7, 8}]

\* what a component can hand to setError
ErrorMessages == {Null, "Something went wrong"}

\* what the server can answer on /refresh
RefreshResponses == {[status |-> 204, body |-> Null],
                     [status |-> 401, body |-> "detail"],
                     [status |-> 500, body |-> "detail"]}

----------------------------------------------------------------------------
(* Pure helpers *)

\* Response.ok
Ok(status) == status >= 200 /\ status <= 299

\* url.includes(pat)
Includes(url, pat) ==
    \E i \in 1..(Len(url) - Len(pat) + 1) : SubSeq(url, i, i + Len(pat) - 1) = pat

\* bug: the logout path is missing from the list
isAuthEndpoint_NoLogout(url) ==
    \/ Includes(url, <<"/", "auth", "/", "login", "/">>)
    \/ Includes(url, <<"/", "auth", "/", "refresh", "/">>)

isAuthEndpoint(url) ==
    \/ Includes(url, <<"/", "auth", "/", "login", "/">>)
    \/ Includes(url, <<"/", "auth", "/", "refresh", "/">>)
    \/ Includes(url, <<"/", "auth", "/", "logout", "/">>)

\* fetchOptions built at the top of fetchWithAuth
FetchOptions(options) == [options EXCEPT !.credentials = "include"]

\* bug: every error status, not only 401, is taken for an expired session
ReturnsFirst_AnyError(url, status) == Ok(status) \/ isAuthEndpoint(url)

\* if (response.status !== 401 || isAuthEndpoint(url)) return response;
ReturnsFirst(url, status) == status # 401 \/ isAuthEndpoint(url)

\* if (refreshResponse.ok)
RefreshSucceeded(status) == Ok(status)

\* a request as handed to fetch()
Request(url, opts) ==
    [url |-> url, method |-> opts.method, body |-> opts.body,
     credentials |-> opts.credentials]

\* bug: the retry is sent with the caller's options instead of fetchOptions
RetryRequest_RawOptions(url, options) == Request(url, options)

\* response = await fetch(url, fetchOptions) after a successful refresh
RetryRequest(url, options) == Request(url, FetchOptions(options))

RefreshRequest ==
    [url |-> RefreshUrl, method |-> "POST", body |-> Null, credentials |-> "include"]

MeRequest ==
    [url |-> MeUrl, method |-> "GET", body |-> Null, credentials |-> "include"]

\* data.detail || fallback
DetailOr(body, fallback) == IF body = Null THEN fallback ELSE body

\* the outcome of the n-th request of a run: a Response object or a thrown fault
Response(n, r) == [kind |-> "response", n |-> n, status |-> r.status, body |-> r.body]

Fault(n, f) == [kind |-> "fault", n |-> n, status |-> 0, body |-> f]

\* a response of the given status whose payload response.json() rejected
Unreadable(n, status) ==
    [kind |-> "unreadable", n |-> n, status |-> status, body |-> JsonError]

NoResult == [kind |-> "none", n |-> 0, status |-> 0, body |-> Null]

\* a parsed localStorage["auth-store"] entry: {state: {user, isAuthenticated}}
Record(u, a) == [present |-> TRUE, user |-> u, isAuthenticated |-> a]

\* localStorage.getItem("auth-store") === null
NoRecord == [present |-> FALSE, user |-> Null, isAuthenticated |-> FALSE]

NoOptions == [method |-> Null, body |-> Null, credentials |-> Null]

\* a fetchWithAuth call that has not been made yet
\* log: the requests handed to fetch(), replies: how each one ended,
\* result: what the call returned or threw
IdleCall == [pc |-> "Idle", url |-> <<>>, options |-> NoOptions,
             log |-> <<>>, replies |-> <<>>, result |-> NoResult]

\* the hydrate run before AuthProvider mounts
IdleHydrate == [pc |-> "Idle", def |-> 0, saved |-> NoRecord,
                log |-> <<>>, replies |-> <<>>]

\* the login form before it is submitted: loading and error are the page's
\* own useState values, not the store's
IdleLogin == [pc |-> "Idle", loading |-> FALSE, error |-> "",
              log |-> <<>>, replies |-> <<>>]

\* the registration form before it is submitted; timers counts the pending
\* setTimeout callbacks
IdleRegister == [pc |-> "Idle", loading |-> FALSE, error |-> "", success |-> "",
                 timers |-> 0, log |-> <<>>, replies |-> <<>>]

\* the dashboard before its logout button is clicked
IdleLogout == [pc |-> "Idle", loggingOut |-> FALSE, logoutError |-> "",
               log |-> <<>>, replies |-> <<>>]

\* fetch(`${API_BASE_URL}/api/auth/login/`, {method: "POST", credentials:
\* "include", body: JSON.stringify({email, password})})
LoginRequest ==
    [url |-> LoginUrl, method |-> "POST", body |-> "data", credentials |-> "include"]

\* fetch(`${API_BASE_URL}/api/auth/logout/`, {method: "POST", credentials: "include"})
LogoutRequest ==
    [url |-> LogoutUrl, method |-> "POST", body |-> Null, credentials |-> "include"]

\* the pathnames a browser asks the middleware for
Pathnames == {"/", "/login", "/register", "/dashboard", "/dashboard/products", "/login/"}

PROTECTED_ROUTES == {"/dashboard"}

AUTH_ROUTES == {"/login", "/register"}

\* NextResponse.redirect(new URL(to, request.url))
Redirect(to) == [kind |-> "redirect", to |-> to]

\* NextResponse.next()
PassThrough == [kind |-> "next", to |-> Null]

\* the four asynchronous operations of the product store
OpKinds == {"fetchProducts", "createProduct", "updateProduct", "deleteProduct"}

ProductIds == {"p1", "p2"}

\* the product records the server can return
Catalogue == {[id |-> "p1", name |-> "a"],
              [id |-> "p2", name |-> "a"]}

\* the lists GET /api/products/ can return
ServerLists == {<<>>,
                <<[id |-> "p1", name |-> "a"], [id |-> "p2", name |-> "a"]>>}

\* the failure statuses the server can answer a product request with
ProductFailures == {401, 403, 500}

\* the payload of a failure once parsed: data.detail is present in some
\* error bodies and absent in others
ErrorBodies == {"detail", Null}

\* `${API_BASE_URL}/api/products/${productId}/`
ProductUrl(productId) == ProductsUrl \o <<productId, "/">>

\* an operation of the product store that is not running
\* log: the requests the run has handed to fetch()
\* status: the status of the response whose payload the run is reading
IdleOp == [pc |-> "Idle", id |-> Null, log |-> <<>>, status |-> 0]

\* no operation of the product store has finished yet
NoOp == [kind |-> Null, id |-> Null, log |-> <<>>, reply |-> NoResult,
         result |-> "undefined"]

\* what hydrate can find in localStorage: no entry, an entry whose flag is
\* false, an entry left by an authenticated session
StoredRecords == {NoRecord, Record(Null, FALSE), Record("alice", TRUE)}

----------------------------------------------------------------------------
(* Auth store (zustand + persist) *)

\* bug: the flag is reset but the cached profile is kept
clearAuth_KeepsUser ==
    /\ isAuthenticated' = FALSE
    /\ error' = Null
    /\ loading' = FALSE
    /\ UNCHANGED user

\* clearAuth: set({user: null, isAuthenticated: false, error: null, loading: false});
clearAuth ==
    /\ user' = Null
    /\ isAuthenticated' = FALSE
    /\ error' = Null
    /\ loading' = FALSE

\* a fetchWithAuth that leaves navigation to its caller
RedirectToLogin_Never == UNCHANGED location

\* if (typeof window !== "undefined") window.location.href = "/login"
RedirectToLogin ==
    location' = IF hasWindow THEN "/login" ELSE location

Session == <<user, isAuthenticated>>

----------------------------------------------------------------------------
(* fetchWithAuth, one process per call c *)

\* bug: a module-level cache keyed by url answers a call from the result of
\* an earlier finished call to the same url, without issuing a request
Call_Memoised(c, url, options) ==
    /\ calls[c].pc = "Idle"
    /\ \A d \in Calls : d < c => calls[d].pc # "Idle"
    /\ LET earlier == {d \in Calls : d < c /\ calls[d].pc = "Done" /\ calls[d].url = url}
       IN  calls' = [calls EXCEPT ![c] =
                 IF earlier # {}
                   THEN [pc |-> "Done", url |-> url, options |-> options,
                         log |-> <<>>, replies |-> <<>>,
                         result |-> calls[CHOOSE d \in earlier : TRUE].result]
                   ELSE [pc |-> "Requesting", url |-> url, options |-> options,
                         log |-> <<Request(url, FetchOptions(options))>>,
                         replies |-> <<>>, result |-> NoResult]]
    /\ UNCHANGED <<user, isAuthenticated, loading, error, location,
                   hasWindow, productStore, hydrateRun, pages>>

\* fetchWithAuth(url, options) up to its first await: builds fetchOptions and
\* issues the first request.  Calls are numbered in the order they are made.
Call(c, url, options) ==
    /\ calls[c].pc = "Idle"
    /\ \A d \in Calls : d < c => calls[d].pc # "Idle"
    /\ calls' = [calls EXCEPT ![c] =
                    [pc |-> "Requesting", url |-> url, options |-> options,
                     log |-> <<Request(url, FetchOptions(options))>>,
                     replies |-> <<>>, result |-> NoResult]]
    /\ UNCHANGED <<user, isAuthenticated, loading, error, location,
                   hasWindow, productStore, hydrateRun, pages>>

\* a fetchWithAuth that coalesces refreshes: a call that gets 401 while
\* another call's refresh is in flight issues none of its own
FirstResponse_Coalesces(c, r) ==
    /\ calls[c].pc = "Requesting"
    /\ IF ReturnsFirst(calls[c].url, r.status)
         THEN calls' = [calls EXCEPT ![c].pc = "Done",
                                     ![c].replies = Append(@, Response(1, r)),
                                     ![c].result = Response(1, r)]
         ELSE IF \E d \in Calls : d # c /\ calls[d].pc = "Refreshing"
         THEN calls' = [calls EXCEPT ![c].pc = "Refreshing",
                                     ![c].replies = Append(@, Response(1, r))]
         ELSE calls' = [calls EXCEPT ![c].pc = "Refreshing",
                                     ![c].replies = Append(@, Response(1, r)),
                                     ![c].log = Append(@, RefreshRequest)]
    /\ UNCHANGED <<user, isAuthenticated, loading, error, location,
                   hasWindow, productStore, hydrateRun, pages>>

\* bug: the first fetch is wrapped in a catch that logs the fault and lets
\* the call complete normally
FirstFault_Swallows(c, f) ==
    /\ calls[c].pc = "Requesting"
    /\ calls' = [calls EXCEPT ![c].pc = "Done",
                               ![c].replies = Append(@, Fault(1, f)),
                               ![c].result = Response(0, [status |-> 0, body |-> Null])]
    /\ UNCHANGED <<user, isAuthenticated, loading, error, location,
                   hasWindow, productStore, hydrateRun, pages>>

\* the first fetch resolves with response r
FirstResponse(c, r) ==
    /\ calls[c].pc = "Requesting"
    /\ IF ReturnsFirst(calls[c].url, r.status)
         THEN calls' = [calls EXCEPT ![c].pc = "Done",
                                     ![c].replies = Append(@, Response(1, r)),
                                     ![c].result = Response(1, r)]
         ELSE calls' = [calls EXCEPT ![c].pc = "Refreshing",
                                     ![c].replies = Append(@, Response(1, r)),
                                     ![c].log = Append(@, RefreshRequest)]
    /\ UNCHANGED <<user, isAuthenticated, loading, error, location,
                   hasWindow, productStore, hydrateRun, pages>>

\* the first fetch rejects: it is outside the try block, the fault propagates
FirstFault(c, f) ==
    /\ calls[c].pc = "Requesting"
    /\ calls' = [calls EXCEPT ![c].pc = "Done",
                               ![c].replies = Append(@, Fault(1, f)),
                               ![c].result = Fault(1, f)]
    /\ UNCHANGED <<user, isAuthenticated, loading, error, location,
                   hasWindow, productStore, hydrateRun, pages>>

\* the refresh fetch resolves with response r
RefreshResponse(c, r) ==
    /\ calls[c].pc = "Refreshing"
    /\ IF RefreshSucceeded(r.status)
         THEN /\ calls' = [calls EXCEPT
                             ![c].pc = "Retrying",
                             ![c].replies = Append(@, Response(2, r)),
                             ![c].log = Append(@, RetryRequest(calls[c].url,
                                                                calls[c].options))]
              /\ UNCHANGED <<user, isAuthenticated, loading, error, location>>
         ELSE /\ clearAuth
              /\ RedirectToLogin
              /\ calls' = [calls EXCEPT ![c].pc = "Done",
                                         ![c].replies = Append(@, Response(2, r)),
                                         ![c].result = Response(2, r)]
    /\ UNCHANGED <<hasWindow, productStore, hydrateRun, pages>>

\* bug: the catch block logs the error and does not rethrow it, the call
\* resolves with undefined
CatchRefreshError_Swallows(c, n, f) ==
    /\ clearAuth
    /\ RedirectToLogin
    /\ calls' = [calls EXCEPT ![c].pc = "Done",
                               ![c].replies = Append(@, Fault(n, f)),
                               ![c].result = NoResult]

\* catch (error) of the try block: clearAuth, redirect, rethrow
CatchRefreshError(c, n, f) ==
    /\ clearAuth
    /\ RedirectToLogin
    /\ calls' = [calls EXCEPT ![c].pc = "Done",
                               ![c].replies = Append(@, Fault(n, f)),
                               ![c].result = Fault(n, f)]

\* the refresh fetch rejects
RefreshFault(c, f) ==
    /\ calls[c].pc = "Refreshing"
    /\ CatchRefreshError(c, 2, f)
    /\ UNCHANGED <<hasWindow, productStore, hydrateRun, pages>>

\* bug: a 401 on the re-issued request starts another refresh
RetryResponse_RefreshesAgain(c, r) ==
    /\ calls[c].pc = "Retrying"
    /\ IF r.status = 401
         THEN calls' = [calls EXCEPT ![c].pc = "Refreshing",
                                     ![c].replies = Append(@, Response(3, r)),
                                     ![c].log = Append(@, RefreshRequest)]
         ELSE calls' = [calls EXCEPT ![c].pc = "Done",
                                     ![c].replies = Append(@, Response(3, r)),
                                     ![c].result = Response(3, r)]
    /\ UNCHANGED <<user, isAuthenticated, loading, error, location,
                   hasWindow, productStore, hydrateRun, pages>>

\* bug: the retry's response is stored in a new binding and the stale first
\* response is returned
RetryResponse_ReturnsFirst(c, r) ==
    /\ calls[c].pc = "Retrying"
    /\ calls' = [calls EXCEPT ![c].pc = "Done",
                               ![c].replies = Append(@, Response(3, r)),
                               ![c].result = calls[c].replies[1]]
    /\ UNCHANGED <<user, isAuthenticated, loading, error, location,
                   hasWindow, productStore, hydrateRun, pages>>

\* bug: the retry is made by calling fetchWithAuth again, so a 401 on it
\* is handled like a first response
RetryResponse_Recurses(c, r) ==
    /\ calls[c].pc = "Retrying"
    /\ IF r.status = 401
         THEN calls' = [calls EXCEPT ![c].pc = "Requesting",
                                     ![c].replies = <<>>]
         ELSE calls' = [calls EXCEPT ![c].pc = "Done",
                                     ![c].replies = Append(@, Response(3, r)),
                                     ![c].result = Response(3, r)]
    /\ UNCHANGED <<user, isAuthenticated, loading, error, location,
                   hasWindow, productStore, hydrateRun, pages>>

\* the re-issued original fetch resolves: returned whatever its status
RetryResponse(c, r) ==
    /\ calls[c].pc = "Retrying"
    /\ calls' = [calls EXCEPT ![c].pc = "Done",
                               ![c].replies = Append(@, Response(3, r)),
                               ![c].result = Response(3, r)]
    /\ UNCHANGED <<user, isAuthenticated, loading, error, location,
                   hasWindow, productStore, hydrateRun, pages>>

\* the re-issued original fetch rejects: it is awaited inside the try block,
\* so the same catch runs
RetryFault(c, f) ==
    /\ calls[c].pc = "Retrying"
    /\ CatchRefreshError(c, 3, f)
    /\ UNCHANGED <<hasWindow, productStore, hydrateRun, pages>>

----------------------------------------------------------------------------
(* hydrate, run once when AuthProvider mounts.  The sources hold two         *)
(* definitions of useAuthStore; def = 1 is a run of the first one's hydrate, *)
(* def = 2 of the second one's.  saved is what localStorage.getItem found.   *)

\* set({user: null, isAuthenticated: false, error: null}) followed by
\* set({loading: false})
ClearSession ==
    /\ user' = Null
    /\ isAuthenticated' = FALSE
    /\ error' = Null
    /\ loading' = FALSE

\* bug: the profile read back from localStorage is kept instead of the one
\* the server returned
PopulateSession_KeepsSaved(profile) ==
    /\ user' = hydrateRun.saved.user
    /\ isAuthenticated' = TRUE
    /\ error' = Null
    /\ loading' = FALSE

\* set({user, isAuthenticated: true, error: null}); finally set({loading: false})
PopulateSession(profile) ==
    /\ user' = profile
    /\ isAuthenticated' = TRUE
    /\ error' = Null
    /\ loading' = FALSE

\* set({error: msg}); finally set({loading: false})
SetErrorOnly(msg) ==
    /\ error' = msg
    /\ loading' = FALSE
    /\ UNCHANGED <<user, isAuthenticated>>

\* bug: only the presence of the record is tested, not its flag
SkipsVerification_IgnoresFlag(savedState) == ~savedState.present

\* if (!savedState) ... return;  if (!state?.isAuthenticated) ... return;
SkipsVerification(savedState) ==
    ~savedState.present \/ ~savedState.isAuthenticated

\* hydrate() up to its first await: set({loading: true}), read localStorage,
\* return early without a record or with a false flag, else issue GET /me
HydrateStart(def, savedState) ==
    /\ hydrateRun.pc = "Idle"
    /\ IF SkipsVerification(savedState)
         THEN /\ ClearSession
              /\ hydrateRun' = [hydrateRun EXCEPT !.pc = "Done", !.def = def,
                                                  !.saved = savedState]
         ELSE /\ loading' = TRUE
              /\ hydrateRun' = [hydrateRun EXCEPT !.pc = "Verifying", !.def = def,
                                                  !.saved = savedState,
                                                  !.log = <<MeRequest>>]
              /\ UNCHANGED <<user, isAuthenticated, error>>
    /\ UNCHANGED <<location, hasWindow, productStore, calls, pages>>

\* GET /me resolves with response r; on a success status the run goes on to
\* await response.json()
VerifyResponse(r) ==
    /\ hydrateRun.pc = "Verifying"
    /\ IF hydrateRun.def = 2 /\ r.status = 401
         THEN /\ hydrateRun' = [hydrateRun EXCEPT
                                  !.pc = "Refreshing",
                                  !.log = Append(@, RefreshRequest),
                                  !.replies = Append(@, Response(1, r))]
              /\ UNCHANGED <<user, isAuthenticated, loading, error>>
       ELSE IF Ok(r.status)
         THEN /\ hydrateRun' = [hydrateRun EXCEPT
                                  !.pc = "ReadingProfile",
                                  !.replies = Append(@, Response(1, r))]
              /\ UNCHANGED <<user, isAuthenticated, loading, error>>
         ELSE /\ hydrateRun' = [hydrateRun EXCEPT
                                  !.pc = "Done",
                                  !.replies = Append(@, Response(1, r))]
              /\ IF hydrateRun.def = 2 \/ r.status = 401 THEN ClearSession
                 ELSE SetErrorOnly("Failed to hydrate auth state")
    /\ UNCHANGED <<location, hasWindow, productStore, calls, pages>>

\* const user = await response.json() settles, for GET /me and for the
\* re-issued GET /me alike: the profile is stored, or json() rejects on a
\* payload that is not JSON and the outer catch runs; then finally
ProfileBody ==
    /\ hydrateRun.pc = "ReadingProfile"
    /\ hydrateRun' = [hydrateRun EXCEPT !.pc = "Done"]
    /\ LET body == hydrateRun.replies[Len(hydrateRun.replies)].body
       IN  IF body # NotJson THEN PopulateSession(body)
           ELSE IF hydrateRun.def = 2 THEN ClearSession
           ELSE SetErrorOnly(JsonError)
    /\ UNCHANGED <<location, hasWindow, productStore, calls, pages>>

\* GET /me rejects: outer catch, then finally
VerifyFault(f) ==
    /\ hydrateRun.pc = "Verifying"
    /\ hydrateRun' = [hydrateRun EXCEPT !.pc = "Done",
                                        !.replies = Append(@, Fault(1, f))]
    /\ IF hydrateRun.def = 2 THEN ClearSession ELSE SetErrorOnly(f)
    /\ UNCHANGED <<location, hasWindow, productStore, calls, pages>>

\* second definition only: POST /refresh resolves with response r
HydrateRefreshResponse(r) ==
    /\ hydrateRun.pc = "Refreshing"
    /\ IF Ok(r.status)
         THEN /\ hydrateRun' = [hydrateRun EXCEPT
                                  !.pc = "Reverifying",
                                  !.log = Append(@, MeRequest),
                                  !.replies = Append(@, Response(2, r))]
              /\ UNCHANGED <<user, isAuthenticated, loading, error>>
         ELSE /\ hydrateRun' = [hydrateRun EXCEPT
                                  !.pc = "Done",
                                  !.replies = Append(@, Response(2, r))]
              /\ ClearSession
    /\ UNCHANGED <<location, hasWindow, productStore, calls, pages>>

\* bug: the inner catch returns without ending the loading, and no finally
\* block does it either
HydrateRefreshFault_LeavesLoading(f) ==
    /\ hydrateRun.pc = "Refreshing"
    /\ hydrateRun' = [hydrateRun EXCEPT !.pc = "Done",
                                        !.replies = Append(@, Fault(2, f))]
    /\ user' = Null
    /\ isAuthenticated' = FALSE
    /\ error' = Null
    /\ UNCHANGED loading
    /\ UNCHANGED <<location, hasWindow, productStore, calls, pages>>

\* second definition only: POST /refresh rejects, inner catch
HydrateRefreshFault(f) ==
    /\ hydrateRun.pc = "Refreshing"
    /\ hydrateRun' = [hydrateRun EXCEPT !.pc = "Done",
                                        !.replies = Append(@, Fault(2, f))]
    /\ ClearSession
    /\ UNCHANGED <<location, hasWindow, productStore, calls, pages>>

\* bug: a 401 on the re-issued GET /me starts another refresh
ReverifyResponse_RefreshesAgain(r) ==
    /\ hydrateRun.pc = "Reverifying"
    /\ IF r.status = 401
         THEN /\ hydrateRun' = [hydrateRun EXCEPT
                                  !.pc = "Refreshing",
                                  !.log = Append(@, RefreshRequest),
                                  !.replies = Append(@, Response(3, r))]
              /\ UNCHANGED <<user, isAuthenticated, loading, error>>
         ELSE /\ hydrateRun' = [hydrateRun EXCEPT
                                  !.pc = IF Ok(r.status) THEN "ReadingProfile"
                                         ELSE "Done",
                                  !.replies = Append(@, Response(3, r))]
              /\ IF Ok(r.status)
                   THEN UNCHANGED <<user, isAuthenticated, loading, error>>
                   ELSE ClearSession
    /\ UNCHANGED <<location, hasWindow, productStore, calls, pages>>

\* second definition only: the re-issued GET /me resolves with response r;
\* on a success status the run goes on to await response.json()
ReverifyResponse(r) ==
    /\ hydrateRun.pc = "Reverifying"
    /\ hydrateRun' = [hydrateRun EXCEPT
                        !.pc = IF Ok(r.status) THEN "ReadingProfile" ELSE "Done",
                        !.replies = Append(@, Response(3, r))]
    /\ IF Ok(r.status) THEN UNCHANGED <<user, isAuthenticated, loading, error>>
       ELSE ClearSession
    /\ UNCHANGED <<location, hasWindow, productStore, calls, pages>>

\* second definition only: the re-issued GET /me rejects; it is awaited inside
\* the inner try block, so the inner catch runs
ReverifyFault(f) ==
    /\ hydrateRun.pc = "Reverifying"
    /\ hydrateRun' = [hydrateRun EXCEPT !.pc = "Done",
                                        !.replies = Append(@, Fault(3, f))]
    /\ ClearSession
    /\ UNCHANGED <<location, hasWindow, productStore, calls, pages>>

----------------------------------------------------------------------------
(* The login form's handleSubmit *)

\* bug: setUser marks the session authenticated whatever it is given
setUser_AlwaysAuthenticated(profile) ==
    /\ user' = profile
    /\ isAuthenticated' = TRUE
    /\ error' = Null
    /\ UNCHANGED loading

\* setUser(user): set({user, isAuthenticated: !!user, error: null})
setUser(profile) ==
    /\ user' = profile
    /\ isAuthenticated' = (profile # Null)
    /\ error' = Null
    /\ UNCHANGED loading

\* handleSubmit up to its first await: setLocalLoading(true),
\* setLocalError(""), POST /api/auth/login/
LoginSubmit ==
    /\ loginRun.pc \in {"Idle", "Done"}
    /\ loginRun' = [pc |-> "LoggingIn", loading |-> TRUE, error |-> "",
                    log |-> <<LoginRequest>>, replies |-> <<>>]
    /\ UNCHANGED <<user, isAuthenticated, loading, error, location, hasWindow, productStore,
                   calls, hydrateRun, logoutRun, served, registerRun>>

\* POST /login resolves with response r: a non-success status goes on to
\* await response.json(); a success goes on to GET /api/auth/me/
LoginResponse(r) ==
    /\ loginRun.pc = "LoggingIn"
    /\ IF Ok(r.status)
         THEN loginRun' = [loginRun EXCEPT
                             !.pc = "FetchingProfile",
                             !.log = Append(@, MeRequest),
                             !.replies = Append(@, Response(1, r))]
         ELSE loginRun' = [loginRun EXCEPT
                             !.pc = "ReadingError",
                             !.replies = Append(@, Response(1, r))]
    /\ UNCHANGED <<user, isAuthenticated, loading, error, location, hasWindow, productStore,
                   calls, hydrateRun, logoutRun, served, registerRun>>

\* const data = await response.json() settles on a failed login:
\* setLocalError(data.detail || "Login failed") and return, or json() rejects
\* and catch shows err.message; finally ends the loading
LoginErrorBody ==
    /\ loginRun.pc = "ReadingError"
    /\ LET body == loginRun.replies[1].body
       IN  loginRun' = [loginRun EXCEPT
                          !.pc = "Done", !.loading = FALSE,
                          !.error = IF body = NotJson THEN JsonError
                                    ELSE DetailOr(body, "Login failed")]
    /\ UNCHANGED <<user, isAuthenticated, loading, error, location, hasWindow, productStore,
                   calls, hydrateRun, logoutRun, served, registerRun>>

\* POST /login rejects: catch sets the error, finally ends the loading
LoginFault(f) ==
    /\ loginRun.pc = "LoggingIn"
    /\ loginRun' = [loginRun EXCEPT !.pc = "Done", !.loading = FALSE,
                                    !.error = f,
                                    !.replies = Append(@, Fault(1, f))]
    /\ UNCHANGED <<user, isAuthenticated, loading, error, location, hasWindow, productStore,
                   calls, hydrateRun, logoutRun, served, registerRun>>

\* GET /me resolves with response r: a success goes on to await
\* userResponse.json(); anything else only sets the form's error
ProfileResponse(r) ==
    /\ loginRun.pc = "FetchingProfile"
    /\ IF Ok(r.status)
         THEN loginRun' = [loginRun EXCEPT
                             !.pc = "ReadingUser",
                             !.replies = Append(@, Response(2, r))]
         ELSE loginRun' = [loginRun EXCEPT
                             !.pc = "Done", !.loading = FALSE,
                             !.error = "Failed to fetch user profile",
                             !.replies = Append(@, Response(2, r))]
    /\ UNCHANGED <<user, isAuthenticated, loading, error, location, hasWindow, productStore,
                   calls, hydrateRun, logoutRun, served, registerRun>>

\* const user = await userResponse.json() settles: setUser(user) and
\* router.push("/dashboard"), or json() rejects and catch shows err.message;
\* finally ends the loading
UserBody ==
    /\ loginRun.pc = "ReadingUser"
    /\ LET body == loginRun.replies[2].body
       IN  IF body # NotJson
             THEN /\ setUser(body)
                  /\ location' = "/dashboard"
                  /\ loginRun' = [loginRun EXCEPT !.pc = "Done",
                                                  !.loading = FALSE]
             ELSE /\ loginRun' = [loginRun EXCEPT !.pc = "Done",
                                                  !.loading = FALSE,
                                                  !.error = JsonError]
                  /\ UNCHANGED <<user, isAuthenticated, loading, error, location>>
    /\ UNCHANGED <<hasWindow, productStore, calls, hydrateRun, logoutRun, served, registerRun>>

\* GET /me rejects
ProfileFault(f) ==
    /\ loginRun.pc = "FetchingProfile"
    /\ loginRun' = [loginRun EXCEPT !.pc = "Done", !.loading = FALSE,
                                    !.error = f,
                                    !.replies = Append(@, Fault(2, f))]
    /\ UNCHANGED <<user, isAuthenticated, loading, error, location, hasWindow, productStore,
                   calls, hydrateRun, logoutRun, served, registerRun>>

----------------------------------------------------------------------------
(* The dashboard's handleLogout *)

\* handleLogout up to its await: setLoggingOut(true), setLogoutError(""),
\* POST /api/auth/logout/
LogoutClick ==
    /\ logoutRun.pc \in {"Idle", "Done"}
    /\ logoutRun' = [pc |-> "LoggingOut", loggingOut |-> TRUE, logoutError |-> "",
                     log |-> <<LogoutRequest>>, replies |-> <<>>]
    /\ UNCHANGED <<user, isAuthenticated, loading, error, location, hasWindow, productStore,
                   calls, hydrateRun, loginRun, served, registerRun>>

\* bug: the local session is cleared before the status of the logout
\* response is looked at
LogoutResponse_ClearsAnyway(r) ==
    /\ logoutRun.pc = "LoggingOut"
    /\ clearAuth
    /\ IF Ok(r.status)
         THEN /\ location' = "/"
              /\ logoutRun' = [logoutRun EXCEPT
                                 !.pc = "Done", !.loggingOut = FALSE,
                                 !.replies = Append(@, Response(1, r))]
         ELSE /\ logoutRun' = [logoutRun EXCEPT
                                 !.pc = "Done", !.loggingOut = FALSE,
                                 !.logoutError = "Logout failed",
                                 !.replies = Append(@, Response(1, r))]
              /\ UNCHANGED location
    /\ UNCHANGED <<hasWindow, productStore, calls, hydrateRun, loginRun, served, registerRun>>

\* POST /logout resolves with response r: a non-success status sets the
\* logout error and returns; a success calls clearAuth and pushes "/"
LogoutResponse(r) ==
    /\ logoutRun.pc = "LoggingOut"
    /\ IF Ok(r.status)
         THEN /\ clearAuth
              /\ location' = "/"
              /\ logoutRun' = [logoutRun EXCEPT
                                 !.pc = "Done", !.loggingOut = FALSE,
                                 !.replies = Append(@, Response(1, r))]
         ELSE /\ logoutRun' = [logoutRun EXCEPT
                                 !.pc = "Done", !.loggingOut = FALSE,
                                 !.logoutError = "Logout failed",
                                 !.replies = Append(@, Response(1, r))]
              /\ UNCHANGED <<user, isAuthenticated, loading, error, location>>
    /\ UNCHANGED <<hasWindow, productStore, calls, hydrateRun, loginRun, served, registerRun>>

\* POST /logout rejects
LogoutFault(f) ==
    /\ logoutRun.pc = "LoggingOut"
    /\ logoutRun' = [logoutRun EXCEPT !.pc = "Done", !.loggingOut = FALSE,
                                      !.logoutError = f,
                                      !.replies = Append(@, Fault(1, f))]
    /\ UNCHANGED <<user, isAuthenticated, loading, error, location, hasWindow, productStore,
                   calls, hydrateRun, loginRun, served, registerRun>>

----------------------------------------------------------------------------
(* The route middleware *)

\* bug: a protected route also protects the paths below it
middleware_ProtectsSubpaths(pathname, hasAccessToken) ==
    IF hasAccessToken /\ pathname \in AUTH_ROUTES
      THEN Redirect("/dashboard")
    ELSE IF ~hasAccessToken /\ pathname \in PROTECTED_ROUTES \cup {"/dashboard/products"}
      THEN Redirect("/login")
    ELSE PassThrough

\* bug: the login page is listed among the protected routes
middleware_LoginProtected(pathname, hasAccessToken) ==
    IF hasAccessToken /\ pathname \in AUTH_ROUTES
      THEN Redirect("/dashboard")
    ELSE IF ~hasAccessToken /\ pathname \in PROTECTED_ROUTES \cup {"/login"}
      THEN Redirect("/login")
    ELSE PassThrough

\* middleware(request), with pathname = request.nextUrl.pathname and
\* hasAccessToken = request.cookies.has("access_token"); Array.includes
\* compares whole strings
middleware(pathname, hasAccessToken) ==
    IF hasAccessToken /\ pathname \in AUTH_ROUTES
      THEN Redirect("/dashboard")
    ELSE IF ~hasAccessToken /\ pathname \in PROTECTED_ROUTES
      THEN Redirect("/login")
    ELSE PassThrough

\* the middleware serves one request
Serve(pathname, hasAccessToken) ==
    /\ Len(served) < MaxRequests
    /\ served' = Append(served, [pathname |-> pathname,
                                 hasAccessToken |-> hasAccessToken,
                                 via |-> "navigation",
                                 response |-> middleware(pathname, hasAccessToken)])
    /\ UNCHANGED <<user, isAuthenticated, loading, error, location, hasWindow, productStore,
                   calls, hydrateRun, loginRun, logoutRun, registerRun>>

\* the browser follows the redirect it was just answered with: it requests
\* the target with the cookies it sent before, and the middleware serves that
FollowRedirect ==
    /\ Len(served) \in 1..(MaxRequests - 1)
    /\ LET last == served[Len(served)]
       IN  /\ last.response.kind = "redirect"
           /\ served' = Append(served,
                  [pathname |-> last.response.to,
                   hasAccessToken |-> last.hasAccessToken,
                   via |-> "redirect",
                   response |-> middleware(last.response.to, last.hasAccessToken)])
    /\ UNCHANGED <<user, isAuthenticated, loading, error, location, hasWindow, productStore,
                   calls, hydrateRun, loginRun, logoutRun, registerRun>>

----------------------------------------------------------------------------
(* The registration form's handleSubmit *)

\* fetch(`${API_BASE_URL}/api/auth/register/`, {method: "POST", headers,
\* body: JSON.stringify({...})}): no credentials option is given
RegisterRequest ==
    [url |-> RegisterUrl, method |-> "POST", body |-> "data", credentials |-> "unset"]

\* handleSubmit up to its first await: setError(""), setSuccess(""), the two
\* validations, each of which sets an error and returns before loading is
\* touched, then setLoading(true) and POST /api/auth/register/
RegisterSubmit(form) ==
    /\ registerRun.pc \in {"Idle", "Done"}
    /\ IF ~form.matches
         THEN registerRun' = [registerRun EXCEPT
                                !.pc = "Done", !.success = "",
                                !.error = "Passwords do not match",
                                !.log = <<>>, !.replies = <<>>]
       ELSE IF form.length < 8
         THEN registerRun' = [registerRun EXCEPT
                                !.pc = "Done", !.success = "",
                                !.error = "Password must be at least 8 characters",
                                !.log = <<>>, !.replies = <<>>]
       ELSE registerRun' = [registerRun EXCEPT
                              !.pc = "Registering", !.loading = TRUE,
                              !.error = "", !.success = "",
                              !.log = <<RegisterRequest>>, !.replies = <<>>]
    /\ UNCHANGED <<user, isAuthenticated, loading, error, location, hasWindow,
                   productStore, calls, hydrateRun, loginRun, logoutRun, served>>

\* POST /register resolves with response r: a non-success status goes on to
\* await registerResponse.json(); a success shows the message, arms the
\* redirect timer, and finally ends the loading
RegisterResponse(r) ==
    /\ registerRun.pc = "Registering"
    /\ IF Ok(r.status)
         THEN /\ registerRun.timers < MaxTimers
              /\ registerRun' = [registerRun EXCEPT
                                   !.pc = "Done", !.loading = FALSE,
                                   !.success = "Registration successful! Redirecting to login...",
                                   !.timers = @ + 1,
                                   !.replies = Append(@, Response(1, r))]
         ELSE registerRun' = [registerRun EXCEPT
                                !.pc = "ReadingError",
                                !.replies = Append(@, Response(1, r))]
    /\ UNCHANGED <<user, isAuthenticated, loading, error, location, hasWindow,
                   productStore, calls, hydrateRun, loginRun, logoutRun, served>>

\* const data = await registerResponse.json() settles on a failed
\* registration: setError(data.detail || "Registration failed") and return,
\* or json() rejects and catch shows err.message; finally ends the loading
RegisterErrorBody ==
    /\ registerRun.pc = "ReadingError"
    /\ LET body == registerRun.replies[1].body
       IN  registerRun' = [registerRun EXCEPT
                             !.pc = "Done", !.loading = FALSE,
                             !.error = IF body = NotJson THEN JsonError
                                       ELSE DetailOr(body, "Registration failed")]
    /\ UNCHANGED <<user, isAuthenticated, loading, error, location, hasWindow,
                   productStore, calls, hydrateRun, loginRun, logoutRun, served>>

\* POST /register rejects: catch sets the error, finally ends the loading
RegisterFault(f) ==
    /\ registerRun.pc = "Registering"
    /\ registerRun' = [registerRun EXCEPT !.pc = "Done", !.loading = FALSE,
                                          !.error = f,
                                          !.replies = Append(@, Fault(1, f))]
    /\ UNCHANGED <<user, isAuthenticated, loading, error, location, hasWindow,
                   productStore, calls, hydrateRun, loginRun, logoutRun, served>>

\* a timer armed by a successful registration fires: router.push("/login")
RegisterRedirect ==
    /\ registerRun.timers > 0
    /\ registerRun' = [registerRun EXCEPT !.timers = @ - 1]
    /\ location' = "/login"
    /\ UNCHANGED <<user, isAuthenticated, loading, error, hasWindow,
                   productStore, calls, hydrateRun, loginRun, logoutRun, served>>

----------------------------------------------------------------------------
(* The product store; one run of each operation can be in flight *)

\* an operation up to its first await: set({loading: true, error: null}) and
\* the fetch of its request
StartOp(kind, productId, url, method, body) ==
    /\ productOps[kind].pc = "Idle"
    /\ Cardinality({k \in OpKinds : productOps[k].pc # "Idle"}) < MaxInFlight
    /\ productsLoading' = TRUE
    /\ productsError' = Null
    /\ productOps' = [productOps EXCEPT ![kind] =
                         [pc |-> "Requesting", id |-> productId,
                          log |-> <<[url |-> url, method |-> method, body |-> body,
                                     credentials |-> "include"]>>,
                          status |-> 0]]
    /\ UNCHANGED <<products, finished>>
    /\ UNCHANGED <<user, isAuthenticated, loading, error, location, hasWindow,
                   calls, hydrateRun, pages>>

\* the fetch of an operation resolves with a status on which the operation
\* goes on to await response.json(): nothing is set yet
AwaitBody(kind, status) ==
    /\ productOps[kind].pc = "Requesting"
    /\ productOps' = [productOps EXCEPT ![kind].pc = "Reading",
                                        ![kind].status = status]
    /\ UNCHANGED <<products, productsLoading, productsError, finished>>
    /\ UNCHANGED <<user, isAuthenticated, loading, error, location, hasWindow,
                   calls, hydrateRun, pages>>

\* an operation from its last await to its end: the set() of the branch
\* taken, then finally set({loading: false}); result is what the call returns
FinishOp(kind, reply, result, newProducts, newError) ==
    /\ products' = newProducts
    /\ productsError' = newError
    /\ productsLoading' = FALSE
    /\ finished' = [kind |-> kind, id |-> productOps[kind].id,
                    log |-> productOps[kind].log, reply |-> reply, result |-> result]
    /\ productOps' = [productOps EXCEPT ![kind] = IdleOp]
    /\ UNCHANGED <<user, isAuthenticated, loading, error, location, hasWindow,
                   calls, hydrateRun, pages>>

\* the fetch of an operation resolves with a status on which the operation
\* sets its error without reading the payload
FailOp(kind, status, newProducts, newError) ==
    /\ productOps[kind].pc = "Requesting"
    /\ FinishOp(kind, Response(1, [status |-> status, body |-> Null]),
                "undefined", newProducts, newError)

\* the response whose payload operation kind has read
Read(kind, body) == Response(1, [status |-> productOps[kind].status, body |-> body])

\* response.json() rejects, catch (error) { set({error: error.message}) }
BodyFaultOp(kind) ==
    /\ productOps[kind].pc = "Reading"
    /\ FinishOp(kind, Unreadable(1, productOps[kind].status), "undefined",
                products, JsonError)

\* the fetch rejects, catch (error) { set({error: error.message}) }
FaultOp(kind, f) ==
    /\ productOps[kind].pc = "Requesting"
    /\ FinishOp(kind, Fault(1, f), "undefined", products, f)

fetchProducts ==
    StartOp("fetchProducts", Null, ProductsUrl, "GET", Null)

\* GET /api/products/ resolves: a success goes on to read the list, 401
\* empties the list
fetchProductsResponse(status) ==
    IF Ok(status) THEN AwaitBody("fetchProducts", status)
    ELSE IF status = 401 THEN FailOp("fetchProducts", status, <<>>, "Unauthorized")
    ELSE FailOp("fetchProducts", status, products, "Failed to fetch products")

\* const products = await response.json() resolves: the list is replaced
fetchProductsBody(list) ==
    /\ productOps["fetchProducts"].pc = "Reading"
    /\ FinishOp("fetchProducts", Read("fetchProducts", list), "undefined", list, Null)

createProduct ==
    StartOp("createProduct", Null, ProductsUrl, "POST", "data")

\* a failure status on which an operation on one product sets its error
\* without reading the payload: 401, and 403 where the operation has a
\* message of its own for it
NoDetailRead(status, forbidden) ==
    status = 401 \/ (status = 403 /\ forbidden # Null)

\* what the product store sets error to on a failure status of an operation
\* on one product
MutationError_IgnoresUnauthorized(r, forbidden, fallback) ==
    IF r.status = 403 /\ forbidden # Null THEN forbidden
    ELSE DetailOr(r.body, fallback)

MutationError(r, forbidden, fallback) ==
    IF r.status = 401 THEN "Unauthorized"
    ELSE IF r.status = 403 /\ forbidden # Null THEN forbidden
    ELSE DetailOr(r.body, fallback)

\* the fetch of an operation on one product resolves: a success, or a
\* failure whose detail is to be shown, goes on to read the payload; 401 and
\* a 403 with a message of its own set the error at once
MutationResponse(kind, status, forbidden, fallback) ==
    IF NoDetailRead(status, forbidden)
      THEN FailOp(kind, status, products,
                  MutationError([status |-> status, body |-> Null], forbidden, fallback))
      ELSE AwaitBody(kind, status)

\* const data = await response.json() resolves on a failure:
\* set({error: data.detail || fallback})
MutationErrorBody(kind, body, forbidden, fallback) ==
    /\ productOps[kind].pc = "Reading"
    /\ ~Ok(productOps[kind].status)
    /\ FinishOp(kind, Read(kind, body), "undefined", products,
                MutationError([status |-> productOps[kind].status, body |-> body],
                              forbidden, fallback))

\* bug: the new product is appended instead of put at the front
Created_AtTheEnd(newProduct) == Append(products, newProduct)

\* [newProduct, ...get().products]
Created(newProduct) == <<newProduct>> \o products

\* POST /api/products/ resolves
createProductResponse(status) ==
    MutationResponse("createProduct", status, Null, "Failed to create product")

\* const newProduct = await response.json() resolves: the product is put in
\* front of the list as it is now and returned
createProductBody(newProduct) ==
    /\ productOps["createProduct"].pc = "Reading"
    /\ Ok(productOps["createProduct"].status)
    /\ Len(products) < MaxProducts
    /\ FinishOp("createProduct", Read("createProduct", newProduct), newProduct,
                Created(newProduct), Null)

createProductErrorBody(body) ==
    MutationErrorBody("createProduct", body, Null, "Failed to create product")

updateProduct(productId) ==
    StartOp("updateProduct", productId, ProductUrl(productId), "PUT", "data")

\* get().products.map((p) => p.id === productId ? updatedProduct : p)
Updated(productId, updatedProduct) ==
    [i \in 1..Len(products) |->
        IF products[i].id = productId THEN updatedProduct ELSE products[i]]

\* PUT /api/products/<id>/ resolves
updateProductResponse(status) ==
    MutationResponse("updateProduct", status, "You can only update your own products",
                     "Failed to update product")

\* const updatedProduct = await response.json() resolves: the entries of the
\* list as it is now that have the id are replaced
updateProductBody(updatedProduct) ==
    /\ productOps["updateProduct"].pc = "Reading"
    /\ Ok(productOps["updateProduct"].status)
    /\ FinishOp("updateProduct", Read("updateProduct", updatedProduct), updatedProduct,
                Updated(productOps["updateProduct"].id, updatedProduct), Null)

updateProductErrorBody(body) ==
    MutationErrorBody("updateProduct", body, "You can only update your own products",
                      "Failed to update product")

deleteProduct(productId) ==
    StartOp("deleteProduct", productId, ProductUrl(productId), "DELETE", Null)

\* get().products.filter((p) => p.id !== productId)
Deleted(productId) == SelectSeq(products, LAMBDA p : p.id # productId)

\* DELETE /api/products/<id>/ resolves: a success drops the entries at once,
\* its payload is not read
deleteProductResponse(status) ==
    IF Ok(status)
      THEN /\ productOps["deleteProduct"].pc = "Requesting"
           /\ FinishOp("deleteProduct",
                       Response(1, [status |-> status, body |-> Null]), "true",
                       Deleted(productOps["deleteProduct"].id), Null)
      ELSE MutationResponse("deleteProduct", status,
                            "You can only delete your own products",
                            "Failed to delete product")

deleteProductErrorBody(body) ==
    MutationErrorBody("deleteProduct", body, "You can only delete your own products",
                      "Failed to delete product")

\* setLoading: (loading) => set({loading})
ProductSetLoading(value) ==
    /\ productsLoading' = value
    /\ UNCHANGED <<products, productsError, productOps, finished>>
    /\ UNCHANGED <<user, isAuthenticated, loading, error, location, hasWindow,
                   calls, hydrateRun, pages>>

\* setError: (error) => set({error})
ProductSetError(message) ==
    /\ productsError' = message
    /\ UNCHANGED <<products, productsLoading, productOps, finished>>
    /\ UNCHANGED <<user, isAuthenticated, loading, error, location, hasWindow,
                   calls, hydrateRun, pages>>

\* clearProducts: () => set({products: [], error: null})
clearProducts ==
    /\ products' = <<>>
    /\ productsError' = Null
    /\ UNCHANGED <<productsLoading, productOps, finished>>
    /\ UNCHANGED <<user, isAuthenticated, loading, error, location, hasWindow,
                   calls, hydrateRun, pages>>

----------------------------------------------------------------------------
(* Specification *)

\* The store is created with user null and isAuthenticated false; persist
\* then restores what partialize saved in an earlier page session, if anything.
Init ==
    /\ user \in {Null, "alice"}
    /\ isAuthenticated = (user # Null)
    /\ loading = FALSE
    /\ error = Null
    /\ location = "/dashboard"
    /\ hasWindow \in BOOLEAN
    /\ calls = [c \in Calls |-> IdleCall]
    /\ hydrateRun = IdleHydrate
    /\ loginRun = IdleLogin
    /\ logoutRun = IdleLogout
    /\ served = <<>>
    /\ registerRun = IdleRegister
    /\ products = <<>>
    /\ productsLoading = FALSE
    /\ productsError = Null
    /\ productOps = [k \in OpKinds |-> IdleOp]
    /\ finished = NoOp

\* fetchWithAuth called with any arguments, up to MaxCalls calls in flight
\* together, each request answered with any status or a fault
Next ==
    \/ \E c \in Calls, in \in CallInputs : Call(c, in[1], in[2])
    \/ \E c \in Calls, r \in ServerResponses : FirstResponse(c, r)
    \/ \E c \in Calls, f \in Faults : FirstFault(c, f)
    \/ \E c \in Calls, r \in RefreshResponses : RefreshResponse(c, r)
    \/ \E c \in Calls, f \in Faults : RefreshFault(c, f)
    \/ \E c \in Calls, r \in ServerResponses : RetryResponse(c, r)
    \/ \E c \in Calls, f \in Faults : RetryFault(c, f)

Spec == Init /\ [][Next]_vars

\* the steps of fetchWithAuth alone
FetchNext == Next

\* the pending fetch of call c settles: it resolves or rejects
Settles(c) ==
    \/ \E r \in ServerResponses : FirstResponse(c, r)
    \/ \E f \in Faults : FirstFault(c, f)
    \/ \E r \in RefreshResponses : RefreshResponse(c, r)
    \/ \E f \in Faults : RefreshFault(c, f)
    \/ \E r \in ServerResponses : RetryResponse(c, r)
    \/ \E f \in Faults : RetryFault(c, f)

\* fetchWithAuth calls under the assumption that every request a call has
\* issued eventually completes
FetchLive == Init /\ [][FetchNext]_vars /\ \A c \in Calls : WF_vars(Settles(c))

\* a caller that awaits each fetchWithAuth call before it makes the next
SeqCall(c, url, options) ==
    /\ \A d \in Calls : d < c => calls[d].pc = "Done"
    /\ Call(c, url, options)

SeqNext ==
    \/ \E c \in Calls, in \in CallInputs : SeqCall(c, in[1], in[2])
    \/ \E c \in Calls, r \in ServerResponses : FirstResponse(c, r)
    \/ \E c \in Calls, f \in Faults : FirstFault(c, f)
    \/ \E c \in Calls, r \in RefreshResponses : RefreshResponse(c, r)
    \/ \E c \in Calls, f \in Faults : RefreshFault(c, f)
    \/ \E c \in Calls, r \in ServerResponses : RetryResponse(c, r)
    \/ \E c \in Calls, f \in Faults : RetryFault(c, f)

\* fetchWithAuth calls made one after the other
FetchSeq == Init /\ [][SeqNext]_vars

\* the route middleware serving requests for any pathname, with or without
\* the access_token cookie
RoutingNext ==
    \/ \E pathname \in Pathnames, hasAccessToken \in BOOLEAN :
          Serve(pathname, hasAccessToken)
    \/ FollowRedirect

Routing == Init /\ [][RoutingNext]_vars

\* the registration form submitted with any content, its request answered
\* with any status or a fault, its redirect timers firing at any moment
RegisterNext ==
    \/ \E form \in Forms : RegisterSubmit(form)
    \/ \E r \in LoginResponses : RegisterResponse(r)
    \/ RegisterErrorBody
    \/ \E f \in Faults : RegisterFault(f)
    \/ RegisterRedirect

Registration == Init /\ [][RegisterNext]_vars

\* a page session that starts with nothing restored: the store is empty
LifeInit == Init /\ user = Null

\* login, hydrate, logout and one fetchWithAuth call, interleaved freely
LifeNext ==
    \/ LoginSubmit
    \/ \E r \in LoginResponses : LoginResponse(r)
    \/ LoginErrorBody
    \/ \E f \in Faults : LoginFault(f)
    \/ \E r \in ProfileResponses : ProfileResponse(r)
    \/ UserBody
    \/ \E f \in Faults : ProfileFault(f)
    \/ LogoutClick
    \/ \E r \in RefreshResponses : LogoutResponse(r)
    \/ \E f \in Faults : LogoutFault(f)
    \/ \E def \in {1, 2}, savedState \in StoredRecords : HydrateStart(def, savedState)
    \/ \E r \in ProfileResponses : VerifyResponse(r)
    \/ \E f \in Faults : VerifyFault(f)
    \/ \E r \in RefreshResponses : HydrateRefreshResponse(r)
    \/ \E f \in Faults : HydrateRefreshFault(f)
    \/ \E r \in ProfileResponses : ReverifyResponse(r)
    \/ \E f \in Faults : ReverifyFault(f)
    \/ ProfileBody
    \/ \E in \in CallInputs : Call(1, in[1], in[2])
    \/ \E r \in ServerResponses : FirstResponse(1, r)
    \/ \E f \in Faults : FirstFault(1, f)
    \/ \E r \in RefreshResponses : RefreshResponse(1, r)
    \/ \E f \in Faults : RefreshFault(1, f)
    \/ \E r \in ServerResponses : RetryResponse(1, r)
    \/ \E f \in Faults : RetryFault(1, f)

Lifecycle == LifeInit /\ [][LifeNext]_vars

\* the steps of hydrate alone
HydrateNext ==
    \/ \E def \in {1, 2}, savedState \in StoredRecords : HydrateStart(def, savedState)
    \/ \E r \in ProfileResponses : VerifyResponse(r)
    \/ \E f \in Faults : VerifyFault(f)
    \/ \E r \in RefreshResponses : HydrateRefreshResponse(r)
    \/ \E f \in Faults : HydrateRefreshFault(f)
    \/ \E r \in ProfileResponses : ReverifyResponse(r)
    \/ \E f \in Faults : ReverifyFault(f)
    \/ ProfileBody

\* what the hydrate run awaits settles: the pending fetch resolves or
\* rejects, the pending response.json() resolves or rejects
HydrateSettles ==
    \/ \E r \in ProfileResponses : VerifyResponse(r)
    \/ \E f \in Faults : VerifyFault(f)
    \/ \E r \in RefreshResponses : HydrateRefreshResponse(r)
    \/ \E f \in Faults : HydrateRefreshFault(f)
    \/ \E r \in ProfileResponses : ReverifyResponse(r)
    \/ \E f \in Faults : ReverifyFault(f)
    \/ ProfileBody

\* a component calls useAuthStore.getState().setUser(profile)
SetUserCall(profile) ==
    /\ setUser(profile)
    /\ UNCHANGED <<location, hasWindow, productStore, calls, hydrateRun, pages>>

\* a component calls useAuthStore.getState().clearAuth()
ClearAuthCall ==
    /\ clearAuth
    /\ UNCHANGED <<location, hasWindow, productStore, calls, hydrateRun, pages>>

\* a component calls useAuthStore.getState().setLoading(value):
\* set({loading})
SetLoadingCall(value) ==
    /\ loading' = value
    /\ UNCHANGED <<user, isAuthenticated, error>>
    /\ UNCHANGED <<location, hasWindow, productStore, calls, hydrateRun, pages>>

\* a component calls useAuthStore.getState().setError(message): set({error})
SetErrorCall(message) ==
    /\ error' = message
    /\ UNCHANGED <<user, isAuthenticated, loading>>
    /\ UNCHANGED <<location, hasWindow, productStore, calls, hydrateRun, pages>>

\* the auth store on its own: its public actions setUser, setLoading,
\* setError and clearAuth called at any moment, before, during and after a
\* hydrate run
AuthStoreNext ==
    \/ \E profile \in Profiles \cup {Null} : SetUserCall(profile)
    \/ \E value \in BOOLEAN : SetLoadingCall(value)
    \/ \E message \in ErrorMessages : SetErrorCall(message)
    \/ ClearAuthCall
    \/ HydrateNext

AuthStore == Init /\ [][AuthStoreNext]_vars

\* the auth store under the assumption that every request hydrate has
\* issued eventually completes
HydrateLive == AuthStore /\ WF_vars(HydrateSettles)

\* the four operations of the product store called at any moment, each
\* request answered with a success, a failure status or a fault, each
\* payload read then arriving as JSON or not
ProductNext ==
    \/ fetchProducts
    \/ \E status \in {200} \cup ProductFailures : fetchProductsResponse(status)
    \/ \E list \in ServerLists : fetchProductsBody(list)
    \/ createProduct
    \/ \E status \in {201} \cup ProductFailures : createProductResponse(status)
    \/ \E p \in Catalogue : createProductBody(p)
    \/ \E body \in ErrorBodies : createProductErrorBody(body)
    \/ \E productId \in ProductIds : updateProduct(productId)
    \/ \E status \in {200} \cup ProductFailures : updateProductResponse(status)
    \/ \E p \in Catalogue : updateProductBody(p)
    \/ \E body \in ErrorBodies : updateProductErrorBody(body)
    \/ \E productId \in ProductIds : deleteProduct(productId)
    \/ \E status \in {204} \cup ProductFailures : deleteProductResponse(status)
    \/ \E body \in ErrorBodies : deleteProductErrorBody(body)
    \/ \E k \in OpKinds, f \in Faults : FaultOp(k, f)
    \/ \E k \in OpKinds : BodyFaultOp(k)

ProductStore == Init /\ [][ProductNext]_vars

\* the product store with its synchronous actions as well: setLoading,
\* setError and clearProducts called at any moment, before, during and after
\* the operations
ProductApiNext ==
    \/ ProductNext
    \/ \E value \in BOOLEAN : ProductSetLoading(value)
    \/ \E message \in ErrorMessages : ProductSetError(message)
    \/ clearProducts

ProductApi == Init /\ [][ProductApiNext]_vars

----------------------------------------------------------------------------
(* Vocabulary of the properties *)

\* the original request of call c as the transport must see it
Original(c) ==
    [url |-> calls[c].url, method |-> calls[c].options.method,
     body |-> calls[c].options.body, credentials |-> "include"]

\* login, refresh and logout: the credential-issuing endpoints
CredentialIssuing(url) == url \in {LoginUrl, RefreshUrl, LogoutUrl}

IsResponse(o) == o.kind = "response"

IsFault(o) == o.kind = "fault"

IsSuccess(o) == o.kind = "response" /\ o.status \in 200..299

\* call c has received at least n outcomes
Got(c, n) == Len(calls[c].replies) >= n

\* call c takes the step in which it receives its n-th outcome
Receives(c, n) == Len(calls[c].replies) = n - 1 /\ Len(calls'[c].replies) = n

SessionCleared == user = Null /\ isAuthenticated = FALSE

TypeOK ==
    /\ user \in Profiles \cup {Null}
    /\ isAuthenticated \in BOOLEAN
    /\ loading \in BOOLEAN
    /\ \A c \in Calls : calls[c].pc \in {"Idle", "Requesting", "Refreshing", "Retrying", "Done"}
    /\ hydrateRun.pc \in {"Idle", "Verifying", "Refreshing", "Reverifying",
                           "ReadingProfile", "Done"}

----------------------------------------------------------------------------
(* Properties of fetchWithAuth *)

FirstNot401(c) ==
    Got(c, 1) /\ IsResponse(calls[c].replies[1]) /\ calls[c].replies[1].status # 401

C1_State(c) ==
    FirstNot401(c) =>
        /\ calls[c].pc = "Done"
        /\ calls[c].result = calls[c].replies[1]
        /\ calls[c].log = <<Original(c)>>

\* C1: a call whose first response is not 401 (any target, any method)
\* returns exactly that response, has issued the original request and no
\* other (no refresh request, no second request to the target), and the step
\* in which it receives that response leaves user and isAuthenticated
\* unchanged.
C1_Non401ReturnedAsIs ==
    [][\A c \in Calls :
          /\ C1_State(c)'
          /\ (Receives(c, 1) /\ FirstNot401(c)') => UNCHANGED <<user, isAuthenticated>>]_vars

C1_Witness ==
    \E c \in Calls :
        /\ calls[c].url = ProductsUrl
        /\ calls[c].pc = "Done"
        /\ calls[c].result = Response(1, [status |-> 500, body |-> "detail"])
        /\ isAuthenticated

RefreshedAfter401(c) ==
    /\ ~CredentialIssuing(calls[c].url)
    /\ Got(c, 2)
    /\ IsResponse(calls[c].replies[1]) /\ calls[c].replies[1].status = 401
    /\ IsSuccess(calls[c].replies[2])

\* C2: a call to a non-credential-issuing target whose first response is 401
\* and whose refresh succeeds has issued original, refresh, original, in that
\* order and nothing else, and once finished its outcome is the outcome of
\* the second original request.
C2_RefreshThenRetryOnce ==
    \A c \in Calls :
        RefreshedAfter401(c) =>
            /\ calls[c].log = <<Original(c), RefreshRequest, Original(c)>>
            /\ calls[c].pc = "Done" =>
                  /\ Got(c, 3)
                  /\ calls[c].result = calls[c].replies[3]
                  /\ calls[c].result.n = 3

C2_Witness ==
    \E c \in Calls :
        /\ RefreshedAfter401(c)
        /\ calls[c].pc = "Done"
        /\ calls[c].result = Response(3, [status |-> 201, body |-> "bob"])

RefreshFailedAfter401(c) ==
    /\ ~CredentialIssuing(calls[c].url)
    /\ Got(c, 2)
    /\ IsResponse(calls[c].replies[1]) /\ calls[c].replies[1].status = 401
    /\ ~IsSuccess(calls[c].replies[2])

C3_State(c) ==
    RefreshFailedAfter401(c) =>
        /\ calls[c].log = <<Original(c), RefreshRequest>>
        /\ calls[c].pc = "Done"
        /\ calls[c].result = calls[c].replies[2]
        /\ calls[c].result.n = 2

\* C3: a call to a non-credential-issuing target whose first response is 401
\* and whose refresh fails (non-success status or transport fault) has issued
\* the original request once and the refresh request once, is finished, hands
\* the caller the failing refresh response or the thrown fault, and the step
\* in which the refresh fails ends with user empty and isAuthenticated false.
C3_RefreshFailureTerminatesSession ==
    [][\A c \in Calls :
          /\ C3_State(c)'
          /\ (Receives(c, 2) /\ RefreshFailedAfter401(c)') => SessionCleared']_vars

C3_Witness ==
    \E c \in Calls :
        /\ RefreshFailedAfter401(c)
        /\ calls[c].result = Response(2, [status |-> 500, body |-> "detail"])
        /\ SessionCleared
        /\ location = "/login"

C4_State(c) ==
    (calls[c].pc # "Idle" /\ CredentialIssuing(calls[c].url)) =>
        /\ calls[c].log = <<Original(c)>>
        /\ Got(c, 1) => /\ calls[c].pc = "Done"
                        /\ calls[c].result = calls[c].replies[1]

\* C4: a call whose target is the login, refresh or logout endpoint issues
\* exactly one request; whatever the answer, 401 included, no refresh call
\* is made, the request is not re-issued, the answer is what the caller
\* gets, and no step of the call changes user or isAuthenticated.
C4_CredentialEndpointsNeverRetried ==
    [][\A c \in Calls :
          /\ C4_State(c)'
          /\ (calls'[c] # calls[c] /\ CredentialIssuing(calls'[c].url))
                => UNCHANGED <<user, isAuthenticated>>]_vars

C4_Witness ==
    \E c \in Calls :
        /\ calls[c].url = LogoutUrl
        /\ calls[c].pc = "Done"
        /\ calls[c].result = Response(1, [status |-> 401, body |-> "detail"])
        /\ isAuthenticated

\* C5: in every state of every execution, whatever the server answers and
\* whichever requests fault, a call has issued at most one request to the
\* refresh endpoint and at most two requests to its target.
C5_AtMostOneRefreshOneRetry ==
    \A c \in Calls :
        /\ Cardinality({i \in 1..Len(calls[c].log) : calls[c].log[i].url = RefreshUrl}) <= 1
        /\ Cardinality({i \in 1..Len(calls[c].log) : calls[c].log[i].url = calls[c].url}) <= 2
        /\ Len(calls[c].log) <= 3

C5_Witness ==
    \E c \in Calls :
        /\ calls[c].pc = "Done"
        /\ Len(calls[c].log) = 3
        /\ calls[c].result = Response(3, [status |-> 401, body |-> "detail"])

RefreshFaulted(c) == Got(c, 2) /\ IsFault(calls[c].replies[2])

C6_State(c) ==
    RefreshFaulted(c) =>
        /\ calls[c].pc = "Done"
        /\ IsFault(calls[c].result)
        /\ calls[c].result = calls[c].replies[2]
        /\ calls[c].log = <<Original(c), RefreshRequest>>

\* C6: when the refresh request of a call ends in a transport fault, the
\* step that handles it ends with user empty and isAuthenticated false, the
\* call is finished by throwing that same fault (it returns no response), and
\* the original request has not been re-issued.
C6_RefreshFaultPropagates ==
    [][\A c \in Calls :
          /\ C6_State(c)'
          /\ (Receives(c, 2) /\ RefreshFaulted(c)') => SessionCleared']_vars

C6_Witness ==
    \E c \in Calls :
        /\ RefreshFaulted(c)
        /\ calls[c].pc = "Done"
        /\ IsFault(calls[c].result)
        /\ SessionCleared
        /\ location = "/login"

RetryAnswered(c) == Got(c, 3) /\ IsResponse(calls[c].replies[3])

C7_State(c) ==
    RetryAnswered(c) =>
        /\ calls[c].pc = "Done"
        /\ calls[c].result = calls[c].replies[3]
        /\ calls[c].log = <<Original(c), RefreshRequest, Original(c)>>

\* C7: after a successful refresh the response of the re-issued request is
\* the result of the call whatever its status, 401 included; the call is
\* then finished, and a finished call issues no further request and never
\* changes its result.
C7_RetryResponseIsFinal ==
    [][\A c \in Calls :
          /\ C7_State(c)'
          /\ calls[c].pc = "Done" => calls'[c] = calls[c]]_vars

C7_Witness ==
    \E c \in Calls :
        /\ RetryAnswered(c)
        /\ calls[c].replies[3].status = 401
        /\ calls[c].result.status = 401
        /\ calls[c].pc = "Done"

\* the phases of a call, in the order of the design's state sequence
Phase(pc) ==
    CASE pc = "Idle" -> 0
      [] pc = "Requesting" -> 1
      [] pc = "Refreshing" -> 2
      [] pc = "Retrying" -> 3
      [] pc = "Done" -> 4

PhaseStep(from, to) ==
    \/ from = "Idle" /\ to = "Requesting"
    \/ from = "Requesting" /\ to \in {"Refreshing", "Done"}
    \/ from = "Refreshing" /\ to \in {"Retrying", "Done"}
    \/ from = "Retrying" /\ to = "Done"

\* C8: provided every request a call issues eventually completes, every
\* call that was made eventually reaches Done; and every step of a call
\* moves it forward along Requesting, (Refreshing, (Retrying,)) Done: no
\* phase is revisited and Done is never left.
C8_TerminatesThroughPhases ==
    /\ \A c \in Calls : (calls[c].pc # "Idle") ~> (calls[c].pc = "Done")
    /\ [][\A c \in Calls :
             calls'[c] # calls[c] =>
                 /\ PhaseStep(calls[c].pc, calls'[c].pc)
                 /\ Phase(calls'[c].pc) > Phase(calls[c].pc)]_vars

C8_Witness ==
    \E c \in Calls :
        /\ calls[c].pc = "Done"
        /\ Len(calls[c].replies) = 3
        /\ \E d \in Calls : calls[d].pc = "Done" /\ Len(calls[d].replies) = 1

----------------------------------------------------------------------------
(* Properties of hydrate *)

\* the run found no record, or a record whose isAuthenticated is false
FoundNoSession ==
    /\ hydrateRun.pc # "Idle"
    /\ ~hydrateRun.saved.present \/ ~hydrateRun.saved.isAuthenticated

\* the run found a record whose isAuthenticated is true
FoundSession ==
    /\ hydrateRun.pc # "Idle"
    /\ hydrateRun.saved.present /\ hydrateRun.saved.isAuthenticated

\* C9: a hydrate run that finds no persisted record, or a record whose
\* isAuthenticated flag is false, issues no request at all and is finished
\* by its first step, which ends with user empty and isAuthenticated false.
C9_NoPersistedSessionNoRequest ==
    [][/\ FoundNoSession' =>
             /\ hydrateRun'.pc = "Done"
             /\ hydrateRun'.log = <<>>
             /\ hydrateRun'.replies = <<>>
       /\ (hydrateRun.pc = "Idle" /\ FoundNoSession') => SessionCleared']_vars

C9_Witness ==
    /\ FoundNoSession
    /\ hydrateRun.saved = Record(Null, FALSE)
    /\ hydrateRun.pc = "Done"
    /\ SessionCleared

\* a success whose payload is JSON: response.json() resolves on it
Readable(o) == IsSuccess(o) /\ o.body # NotJson

\* the run found isAuthenticated=true and its identity check returned a
\* success status
VerifiedAtOnce ==
    /\ FoundSession
    /\ Len(hydrateRun.replies) >= 1
    /\ IsSuccess(hydrateRun.replies[1])

\* the step in which the hydrate run has read the payload of the success it
\* received as its n-th outcome
HydrateReads(n) ==
    /\ hydrateRun.pc = "ReadingProfile"
    /\ hydrateRun'.pc = "Done"
    /\ Len(hydrateRun.replies) = n

\* C10: a hydrate run that finds isAuthenticated=true and whose identity
\* check returns a success status has issued the identity check and no other
\* request (no refresh) and only has the payload left to read; the step in
\* which it has read the profile the response carries finishes the run and
\* ends with user equal to that profile and isAuthenticated true.
C10_VerifiedSessionPopulated ==
    [][/\ VerifiedAtOnce' =>
             /\ hydrateRun'.pc \in {"ReadingProfile", "Done"}
             /\ hydrateRun'.replies = <<hydrateRun'.replies[1]>>
             /\ Len(hydrateRun'.log) = 1
             /\ hydrateRun'.log[1].url = MeUrl
       /\ (VerifiedAtOnce /\ HydrateReads(1) /\ Readable(hydrateRun.replies[1])) =>
             /\ user' = hydrateRun.replies[1].body
             /\ isAuthenticated' = TRUE]_vars

C10_Witness ==
    /\ VerifiedAtOnce
    /\ hydrateRun.pc = "Done"
    /\ hydrateRun.saved.user = "alice"
    /\ hydrateRun.replies[1].body = "bob"
    /\ user = "bob"
    /\ isAuthenticated

\* the hydrate run takes the step in which it receives its n-th outcome
HydrateReceives(n) ==
    Len(hydrateRun.replies) = n - 1 /\ Len(hydrateRun'.replies) = n

\* the run found isAuthenticated=true and its identity check returned 401
VerifyGot401 ==
    /\ FoundSession
    /\ Len(hydrateRun.replies) >= 1
    /\ IsResponse(hydrateRun.replies[1])
    /\ hydrateRun.replies[1].status = 401

C11_State ==
    VerifyGot401 =>
        /\ Len(hydrateRun.log) >= 2
        /\ hydrateRun.log[2] = RefreshRequest
        /\ Len(hydrateRun.replies) >= 2 =>
              IF IsSuccess(hydrateRun.replies[2])
                THEN hydrateRun.log = <<MeRequest, RefreshRequest, MeRequest>>
                ELSE /\ hydrateRun.pc = "Done"
                     /\ hydrateRun.log = <<MeRequest, RefreshRequest>>

C11_Step ==
    /\ C11_State'
    /\ (VerifyGot401' /\ HydrateReceives(2) /\ ~IsSuccess(hydrateRun'.replies[2]))
          => SessionCleared'
    /\ (VerifyGot401 /\ HydrateReads(3) /\ Readable(hydrateRun.replies[3]))
          => /\ user' = hydrateRun.replies[3].body
             /\ isAuthenticated' = TRUE

\* C11: a hydrate run that finds isAuthenticated=true and whose identity
\* check returns 401 issues one refresh request; when the refresh returns a
\* success status it re-issues the identity check once and the step that
\* has read the profile of a success for it ends with that profile and
\* isAuthenticated true; when the refresh returns a non-success status or
\* faults, the run issues no further request and that step ends with the
\* Session cleared.
C11_Hydrate401RefreshesOnce == [][C11_Step]_vars

\* the same property for runs of the second definition of hydrate only
C11_SecondDefinition == [][hydrateRun'.def = 2 => C11_Step]_vars

\* the outcome just received is a failure of the identity check that no
\* refresh can recover
UnrecoverableVerification ==
    \/ /\ HydrateReceives(1)
       /\ \/ IsFault(hydrateRun'.replies[1])
          \/ /\ IsResponse(hydrateRun'.replies[1])
             /\ ~IsSuccess(hydrateRun'.replies[1])
             /\ hydrateRun'.replies[1].status # 401
    \/ /\ HydrateReceives(3)
       /\ IsResponse(hydrateRun'.replies[3])
       /\ ~IsSuccess(hydrateRun'.replies[3])

C12_Step ==
    (FoundSession' /\ UnrecoverableVerification) =>
        /\ hydrateRun'.pc = "Done"
        /\ SessionCleared'

\* C12: a hydrate run that finds isAuthenticated=true is finished, with user
\* empty and isAuthenticated false, by the step in which the identity check
\* returns a non-success status other than 401, or faults, or in which the
\* re-issued identity check returns a non-success status.
C12_HydrateFailsClosed == [][C12_Step]_vars

\* the same property for runs of the second definition of hydrate only
C12_SecondDefinition == [][hydrateRun'.def = 2 => C12_Step]_vars

\* C13: a hydrate run that finds isAuthenticated=true issues the identity
\* check first, then at most one refresh request, then at most one re-issued
\* identity check, and nothing more: its requests are a prefix of
\* <<GET /me, POST /refresh, GET /me>> of length at least one.
C13_HydrateRequestsBounded ==
    FoundSession =>
        /\ Len(hydrateRun.log) \in 1..3
        /\ hydrateRun.log =
              SubSeq(<<MeRequest, RefreshRequest, MeRequest>>, 1, Len(hydrateRun.log))
        /\ Len(hydrateRun.replies) <= Len(hydrateRun.log)
        /\ hydrateRun.pc = "Done" => Len(hydrateRun.replies) = Len(hydrateRun.log)

C13_Witness ==
    /\ FoundSession
    /\ hydrateRun.pc = "Done"
    /\ Len(hydrateRun.log) = 3
    /\ IsResponse(hydrateRun.replies[3])
    /\ hydrateRun.replies[3].status = 401

----------------------------------------------------------------------------
(* Properties of several fetchWithAuth calls *)

\* the requests call c has issued contain no refresh request
NoRefreshIn(c) ==
    \A i \in 1..Len(calls[c].log) : calls[c].log[i].url # RefreshUrl \/ calls[c].url = RefreshUrl

\* calls c and d were made with the same arguments and got the same answer
\* to their first request
SameCallSameAnswer(c, d) ==
    /\ calls[c].url = calls[d].url
    /\ calls[c].options = calls[d].options
    /\ calls[c].replies[1] = calls[d].replies[1]

\* C14: when fetchWithAuth is called again after an earlier call has
\* finished with a first response that is not 401, the later call issues
\* its own original request first and does not finish before that request
\* is answered; when its first response is not 401 either, neither call has
\* issued a refresh request, the later call has issued exactly its own
\* original request and returned the response to it, and a later call made
\* with the same arguments and given the same answer has the same requests
\* and the same result as the earlier one.
C14_SequentialCallsIndependent ==
    \A c \in Calls, d \in Calls :
      /\ (c < d /\ FirstNot401(c) /\ calls[d].pc # "Idle") =>
            /\ calls[c].pc = "Done"
            /\ Len(calls[d].log) >= 1
            /\ calls[d].log[1] = Original(d)
            /\ calls[d].pc = "Done" => Got(d, 1)
      /\ (c < d /\ FirstNot401(c) /\ FirstNot401(d)) =>
            /\ calls[c].pc = "Done"
            /\ NoRefreshIn(c) /\ NoRefreshIn(d)
            /\ Len(calls[c].log) = 1 /\ Len(calls[d].log) = 1
            /\ calls[d].log = <<Original(d)>>
            /\ calls[d].result = calls[d].replies[1]
            /\ SameCallSameAnswer(c, d) =>
                  /\ calls[d].log = calls[c].log
                  /\ calls[d].result = calls[c].result

C14_Witness ==
    /\ calls[1].pc = "Done" /\ calls[2].pc = "Done"
    /\ FirstNot401(1) /\ FirstNot401(2)
    /\ SameCallSameAnswer(1, 2)
    /\ calls[1].url = ProductsUrl
    /\ isAuthenticated

\* a step of fetchWithAuth call c
StepOf(c) == calls'[c] # calls[c]

\* the step in which call c gives the session up: its refresh request is
\* answered with a non-success status, or a request issued inside the try
\* block (the refresh or the retry) faults
GivesUp(c) ==
    \/ Receives(c, 2) /\ ~IsSuccess(calls'[c].replies[2])
    \/ Receives(c, 3) /\ IsFault(calls'[c].replies[3])

\* C15: no step of a fetchWithAuth call changes the location: on session
\* termination the call only clears the Session, and navigation is left to
\* its caller.
C15_ExecutorNeverNavigates ==
    [][\A c \in Calls : StepOf(c) => location' = location]_vars

\* C15 as the code has it: the step in which a call gives the session up
\* clears the Session and, when a window exists, sets the location to /login
\* itself; without a window, and in every other step of a call, the location
\* is unchanged.
C15_ExecutorRedirectsItself ==
    [][\A c \in Calls :
          StepOf(c) =>
              IF GivesUp(c)
                THEN /\ SessionCleared'
                     /\ location' = IF hasWindow THEN "/login" ELSE location
                ELSE location' = location]_vars

C15_Witness ==
    \E c \in Calls :
        /\ calls[c].pc = "Done"
        /\ Got(c, 2)
        /\ IsResponse(calls[c].replies[2]) /\ calls[c].replies[2].status = 401
        /\ calls[c].result = calls[c].replies[2]
        /\ hasWindow
        /\ location = "/login"
        /\ SessionCleared

\* call c is to a target that issues no credentials and its first response
\* is 401
Got401(c) ==
    /\ Got(c, 1)
    /\ IsResponse(calls[c].replies[1])
    /\ calls[c].replies[1].status = 401
    /\ ~CredentialIssuing(calls[c].url)

\* the refresh requests issued so far, as (call, position) pairs; position 1
\* is the original request, which a caller may have aimed at /refresh itself
RefreshesIssued ==
    {p \in Calls \X (2..3) :
        /\ p[2] <= Len(calls[p[1]].log)
        /\ calls[p[1]].log[p[2]] = RefreshRequest}

\* C16: however the calls interleave, every call to a target that issues no
\* credentials whose first response is 401 has issued a refresh request of
\* its own as its second request, so that there are as many refresh requests
\* as there are such calls; and a call whose refresh has been answered has
\* gone on by that answer alone: re-issued its request after a success,
\* returned its own failing refresh response otherwise.
C16_EachCallRefreshesItself ==
    /\ \A c \in Calls :
          Got401(c) =>
              /\ Len(calls[c].log) >= 2
              /\ calls[c].log[2] = RefreshRequest
              /\ Got(c, 2) =>
                    IF IsSuccess(calls[c].replies[2])
                      THEN Len(calls[c].log) = 3 /\ calls[c].log[3] = Original(c)
                      ELSE calls[c].pc = "Done" /\ calls[c].result = calls[c].replies[2]
    /\ Cardinality(RefreshesIssued) = Cardinality({c \in Calls : Got401(c)})

C16_Witness ==
    /\ \A c \in Calls : c <= 2 => Got401(c)
    /\ calls[1].pc = "Refreshing" /\ calls[2].pc = "Refreshing"
    /\ Cardinality(RefreshesIssued) = 2

\* the last outcome call c received
LastReply(c) == calls[c].replies[Len(calls[c].replies)]

\* C17: a finished call has received an outcome for every request it issued
\* and reports the last one: it returned the response to the last request
\* it issued, or threw the fault that request raised; a call that received a
\* fault did not complete normally.
C17_TerminalOutcomeReported ==
    \A c \in Calls :
        calls[c].pc = "Done" =>
            /\ Len(calls[c].log) \in 1..3
            /\ Len(calls[c].replies) = Len(calls[c].log)
            /\ calls[c].result = LastReply(c)
            /\ calls[c].result.n = Len(calls[c].log)
            /\ (\E i \in 1..Len(calls[c].replies) : IsFault(calls[c].replies[i]))
                  => IsFault(calls[c].result)

C17_Witness ==
    \E c \in Calls, d \in Calls :
        /\ calls[c].pc = "Done" /\ calls[d].pc = "Done"
        /\ Len(calls[c].log) = 3 /\ IsFault(calls[c].result) /\ calls[c].result.n = 3
        /\ Len(calls[d].log) = 2 /\ IsResponse(calls[d].result) /\ calls[d].result.status = 500

----------------------------------------------------------------------------
(* Lifecycle of the Session *)

\* the step in which handleSubmit, after a successful login and a success
\* for its identity check, has read the profile
LoginSucceeds ==
    /\ loginRun.pc = "ReadingUser" /\ loginRun'.pc = "Done"
    /\ IsSuccess(loginRun.replies[1])
    /\ Readable(loginRun.replies[2])

\* the step in which hydrate has read the profile of a success for its
\* identity check, the first or the re-issued one
HydrateVerifies ==
    \E n \in {1, 3} : HydrateReads(n) /\ Readable(hydrateRun.replies[n])

\* the step in which handleLogout receives a success for its logout request
LogoutSucceeds ==
    /\ Len(logoutRun.replies) = 0 /\ Len(logoutRun'.replies) = 1
    /\ IsSuccess(logoutRun'.replies[1])

\* the step in which a refresh request, of a fetchWithAuth call or of
\* hydrate, returns a non-success status or faults
RefreshFails ==
    \/ \E c \in Calls : Receives(c, 2) /\ ~IsSuccess(calls'[c].replies[2])
    \/ HydrateReceives(2) /\ ~IsSuccess(hydrateRun'.replies[2])

\* a step in which hydrate finishes without a verified identity: it found
\* no persisted flag to verify, or its identity check failed
HydrateFailsToVerify ==
    /\ hydrateRun' # hydrateRun
    /\ hydrateRun'.pc = "Done"
    /\ \/ hydrateRun'.replies = <<>>
       \/ ~Readable(hydrateRun'.replies[Len(hydrateRun'.replies)])

\* C18: starting from an empty Session, isAuthenticated goes from false to
\* true only in a step in which a login succeeds (login and identity check
\* both answered with a success, the profile read) or hydrate has read the
\* profile of a success for its identity check, and from true to false only in a step in which a logout
\* succeeds, a refresh fails, or hydrate fails to verify.
C18_SessionLifecycle ==
    [][/\ (~isAuthenticated /\ isAuthenticated') => (LoginSucceeds \/ HydrateVerifies)
       /\ (isAuthenticated /\ ~isAuthenticated') =>
              (LogoutSucceeds \/ RefreshFails \/ HydrateFailsToVerify)]_vars

\* the same property with the one further way out of an authenticated
\* session that fetchWithAuth has: a fault on the re-issued request
C18_WithRetryFault ==
    [][/\ (~isAuthenticated /\ isAuthenticated') => (LoginSucceeds \/ HydrateVerifies)
       /\ (isAuthenticated /\ ~isAuthenticated') =>
              \/ LogoutSucceeds \/ RefreshFails \/ HydrateFailsToVerify
              \/ \E c \in Calls : Receives(c, 3) /\ IsFault(calls'[c].replies[3])]_vars

\* the step in which call c's own refresh request returns a non-success
\* status or faults
OwnRefreshFails(c) == Receives(c, 2) /\ ~IsSuccess(calls'[c].replies[2])

\* C20: a step of a fetchWithAuth call changes user or isAuthenticated only
\* when it is the step in which the call's refresh request returns a
\* non-success status or faults; in particular the step in which the
\* re-issued request is answered or faults, and the step in which the first
\* request faults, leave both unchanged; and no step of a call sets
\* isAuthenticated to true.
C20_SessionChangedOnlyByFailedRefresh ==
    [][\A c \in Calls :
          StepOf(c) =>
              /\ Session' # Session => OwnRefreshFails(c)
              /\ isAuthenticated' => isAuthenticated]_vars

\* the same property with the fault on the re-issued request set apart
C20_ExceptRetryFault ==
    [][\A c \in Calls :
          (StepOf(c) /\ ~(Receives(c, 3) /\ IsFault(calls'[c].replies[3]))) =>
              /\ Session' # Session => OwnRefreshFails(c)
              /\ isAuthenticated' => isAuthenticated]_vars

----------------------------------------------------------------------------
(* Properties of the route middleware *)

\* C19: every request the middleware has served, whatever its pathname and
\* whether or not it carried the access_token cookie, was answered with a
\* redirect to /dashboard exactly when the cookie was present and the
\* pathname was /login or /register, with a redirect to /login exactly when
\* the cookie was absent and the pathname was /dashboard, and was passed
\* through in every other case.
C19_MiddlewareRoutes ==
    \A i \in 1..Len(served) :
        LET q == served[i]
            toDashboard == q.hasAccessToken /\ q.pathname \in {"/login", "/register"}
            toLogin == ~q.hasAccessToken /\ q.pathname = "/dashboard"
        IN  /\ (q.response.kind = "redirect" /\ q.response.to = "/dashboard") <=> toDashboard
            /\ (q.response.kind = "redirect" /\ q.response.to = "/login") <=> toLogin
            /\ q.response.kind = "next" <=> (~toDashboard /\ ~toLogin)
            /\ q.response.kind \in {"redirect", "next"}

C19_Witness ==
    /\ Len(served) = 2
    /\ served[1].pathname = "/dashboard/products" /\ ~served[1].hasAccessToken
    /\ served[1].response.kind = "next"
    /\ served[2].pathname = "/register" /\ served[2].hasAccessToken
    /\ served[2].response = [kind |-> "redirect", to |-> "/dashboard"]

----------------------------------------------------------------------------
(* Properties of the auth store *)

\* C21: in every state the auth store reaches through setUser, hydrate and
\* clearAuth, the server answering a success with a non-empty profile,
\* isAuthenticated is true exactly when user is not empty.
C21_AuthenticatedIffUser == isAuthenticated <=> (user # Null)

C21_Witness ==
    /\ hydrateRun.pc = "Done"
    /\ FoundNoSession
    /\ user = "bob"
    /\ isAuthenticated

\* the hydrate run is waiting for a request it has issued or for the
\* payload of a response
HydrateInFlight ==
    hydrateRun.pc \in {"Verifying", "Refreshing", "Reverifying", "ReadingProfile"}

\* C22: the step that starts hydrate and issues the identity check has set
\* loading to true; a step of the run that leaves it waiting does not touch
\* loading; every step that finishes the run, on whatever path, ends with
\* loading false; and, every request and every payload read completing, a
\* started run always reaches the state in which it has finished with
\* loading false.
C22_HydrateLoading ==
    /\ [][/\ (hydrateRun.pc = "Idle" /\ HydrateInFlight') => loading'
          /\ (HydrateInFlight /\ HydrateInFlight' /\ hydrateRun' # hydrateRun)
                => loading' = loading
          /\ (hydrateRun' # hydrateRun /\ hydrateRun'.pc = "Done")
                => ~loading']_vars
    /\ HydrateInFlight ~> (hydrateRun.pc = "Done" /\ ~loading)

C22_Witness ==
    /\ hydrateRun.pc = "Done"
    /\ hydrateRun.def = 2
    /\ Len(hydrateRun.replies) = 2
    /\ IsFault(hydrateRun.replies[2])
    /\ ~loading

\* C26: the middleware never answers a redirect with another redirect:
\* every request that reached it because the browser followed a redirect of
\* its own, with the same cookies, was passed through; and for every request
\* it redirected, whatever the pathname and the cookie, the middleware
\* applied to the target with the same cookie state passes through.
C26_NoRedirectChain ==
    \A i \in 1..Len(served) :
        /\ served[i].via = "redirect" => served[i].response = PassThrough
        /\ served[i].response.kind = "redirect" =>
              middleware(served[i].response.to, served[i].hasAccessToken) = PassThrough

C26_Witness ==
    /\ Len(served) = 2
    /\ served[1].pathname = "/dashboard" /\ ~served[1].hasAccessToken
    /\ served[1].response = Redirect("/login")
    /\ served[2].via = "redirect"
    /\ served[2].pathname = "/login"
    /\ served[2].response = PassThrough

----------------------------------------------------------------------------
(* Properties of the dashboard's logout *)

\* the step in which handleLogout receives the outcome of its request
LogoutAnswered ==
    Len(logoutRun.replies) = 0 /\ Len(logoutRun'.replies) = 1

\* C27: the step in which handleLogout receives a success status ends with
\* the Session cleared and the location at the home route; the step in which
\* it receives a non-success status or a fault leaves user, isAuthenticated
\* and the location unchanged and records a logout error; the step that
\* starts the handler changes none of them either; and whenever the handler
\* has finished, loggingOut is false.
C27_LogoutOnlyAfterSuccess ==
    [][/\ (LogoutAnswered /\ IsSuccess(logoutRun'.replies[1])) =>
              /\ SessionCleared'
              /\ location' = "/"
              /\ logoutRun'.logoutError = ""
       /\ (LogoutAnswered /\ ~IsSuccess(logoutRun'.replies[1])) =>
              /\ UNCHANGED <<user, isAuthenticated, location>>
              /\ logoutRun'.logoutError \notin {"", Null}
       /\ (logoutRun' # logoutRun /\ ~LogoutAnswered) =>
              /\ UNCHANGED <<user, isAuthenticated, location>>
              /\ logoutRun'.loggingOut
       /\ LogoutAnswered => logoutRun'.pc = "Done"
       /\ logoutRun'.pc = "Done" => ~logoutRun'.loggingOut]_vars

C27_Witness ==
    /\ logoutRun.pc = "Done"
    /\ IsResponse(logoutRun.replies[1]) /\ logoutRun.replies[1].status = 500
    /\ logoutRun.logoutError = "Logout failed"
    /\ ~logoutRun.loggingOut
    /\ isAuthenticated /\ user = "bob"
    /\ location = "/dashboard"
    /\ loginRun.pc = "Done"

----------------------------------------------------------------------------
(* Properties of the product store *)

\* operation k has issued its request and has not finished
InFlight(k) == productOps[k].pc \in {"Requesting", "Reading"}

\* the step in which operation k finishes
Finishes(k) == InFlight(k) /\ ~InFlight(k)' /\ finished'.kind = k

\* C23: loading is true in every state in which one of fetchProducts,
\* createProduct, updateProduct and deleteProduct has issued its request and
\* not yet finished.
C23_LoadingWhileInFlight ==
    (\E k \in OpKinds : InFlight(k)) => productsLoading

\* what the code does guarantee: the step that starts an operation ends
\* with loading true, and the step that finishes one ends with loading
\* false, whether or not another operation is still in flight
C23_PerOperation ==
    [][\A k \in OpKinds :
          /\ (~InFlight(k) /\ InFlight(k)') => productsLoading'
          /\ Finishes(k) => ~productsLoading']_vars

\* seq without its entries whose id is productId
RECURSIVE Without(_, _)
Without(seq, productId) ==
    IF seq = <<>> THEN <<>>
    ELSE IF Head(seq).id = productId THEN Without(Tail(seq), productId)
    ELSE <<Head(seq)>> \o Without(Tail(seq), productId)

\* C24: the step in which createProduct, updateProduct or deleteProduct
\* finishes without a success response (a non-success status, a fault, or a
\* success status whose payload cannot be read) leaves the products list
\* unchanged and ends with a non-null error, and so does the step that
\* starts one of them leave the list unchanged; the
\* step in which createProduct finishes with a success puts the returned
\* product in front of the list as it was, updateProduct replaces each entry
\* that has the given id with the returned product and keeps the others in
\* place, deleteProduct drops the entries that have the given id and keeps
\* the others in order.
C24_ProductMutations ==
    [][\A k \in {"createProduct", "updateProduct", "deleteProduct"} :
          /\ (~InFlight(k) /\ InFlight(k)') => products' = products
          /\ (Finishes(k) /\ ~IsSuccess(finished'.reply)) =>
                /\ products' = products
                /\ productsError' # Null
                /\ finished'.result = "undefined"
          /\ (Finishes(k) /\ IsSuccess(finished'.reply)) =>
                /\ k = "createProduct" =>
                      /\ Len(products') = Len(products) + 1
                      /\ Head(products') = finished'.reply.body
                      /\ Tail(products') = products
                /\ k = "updateProduct" =>
                      /\ Len(products') = Len(products)
                      /\ \A i \in 1..Len(products) :
                            products'[i] = IF products[i].id = finished'.id
                                             THEN finished'.reply.body
                                             ELSE products[i]
                /\ k = "deleteProduct" =>
                      products' = Without(products, finished'.id)]_vars

C24_Witness ==
    /\ finished.kind = "deleteProduct"
    /\ finished.id = "p1"
    /\ IsSuccess(finished.reply)
    /\ products = <<[id |-> "p2", name |-> "a"]>>
    /\ productsError = Null

\* C25: the step in which an operation of the product store receives 401 is
\* its last: the operation has issued exactly one request, which is not a
\* refresh request, the step sets error to "Unauthorized" and leaves user
\* and isAuthenticated unchanged.
C25_UnauthorizedNotRetried ==
    [][\A k \in OpKinds :
          (Finishes(k) /\ IsResponse(finished'.reply) /\ finished'.reply.status = 401) =>
              /\ Len(finished'.log) = 1
              /\ finished'.log[1].url # RefreshUrl
              /\ finished'.log[1].url \in {ProductsUrl} \cup {ProductUrl(i) : i \in ProductIds}
              /\ productsError' = "Unauthorized"
              /\ UNCHANGED <<user, isAuthenticated>>]_vars

C25_Witness ==
    /\ finished.kind = "updateProduct"
    /\ IsResponse(finished.reply) /\ finished.reply.status = 401
    /\ Len(finished.log) = 1
    /\ productsError = "Unauthorized"
    /\ isAuthenticated
    /\ products # <<>>

====
